---------------------------- MODULE Spec2Model ----------------------------
(***************************************************************************)
(* A model of the blackjack engine of src/improved_blackjack.py: Card,     *)
(* Deck, Hand, Player, Dealer and the round controller BlackjackGame, with *)
(* the main loop that starts rounds.                                       *)
(*                                                                         *)
(* Amounts of money are integers (dollars).  The bet inputs are even, so   *)
(* the product current_bet * 2.5 of a blackjack payout is an integer and   *)
(* the float arithmetic of the code is exact on every value of the model.  *)
(* random.shuffle is a choice among NumShuffles permutations.              *)
(***************************************************************************)
EXTENDS Integers, Sequences, FiniteSets

VARIABLES
    deck,          \* Deck.cards: the last element is dealt next
    playerHand,    \* Player.hand.cards
    dealerHand,    \* Dealer.hand.cards
    money,         \* Player.money
    current_bet,   \* Player.current_bet
    pc,            \* the control point of main / start_new_game
    result,        \* the result last passed to end_game ("none" in a round not yet settled)
    settlements,   \* the number of end_game calls of the current round
    bankrollAtBet, \* history: Player.money when the round's bet was accepted
    stake,         \* history: the amount of the round's accepted bet
    lastChoice,    \* history: the text last typed at the Hit/Stand prompt of the round
    rejected,      \* history: the text last typed at the bet prompt was rejected
    reshuffled,    \* history: the deck was reset since the hands were last reset
    \* play_game of src/main.py
    simplePc,      \* the control point of play_game
    player_hand,   \* player_hand
    computer_hand, \* computer_hand
    game_over,     \* game_over
    simplePlayerScore,   \* player_score
    simpleComputerScore, \* computer_score
    user_choice,   \* the text last typed at the Hit/Stand prompt, lower-cased and stripped
    message        \* what compare returned ("" before)

\* the variables of the engine of src/improved_blackjack.py
gameVars == <<deck, playerHand, dealerHand, money, current_bet, pc, result,
              settlements, bankrollAtBet, stake, lastChoice, rejected, reshuffled>>

\* the variables of play_game of src/main.py
simpleVars == <<simplePc, player_hand, computer_hand, game_over, simplePlayerScore,
                simpleComputerScore, user_choice, message>>

vars == <<gameVars, simpleVars>>

---------------------------------------------------------------------------
(* Bounds of the model *)

\* random.shuffle is drawn from this many permutations
NumShuffles == 3

\* no new round is started with a bankroll above this
MaxMoney == 1200

\* the longest hand built by the hand specification SpecHand
MaxHandLen == 4

\* in the specification with fairness, SpecLive, no new round is started with
\* a bankroll below this
MinMoneyLive == 900

---------------------------------------------------------------------------
(* Program constants *)

StartMoney == 1000

LowWater == 10

DealerStandsBelow == 17

BustAbove == 21

\* the texts typed at the bet prompt: numeric ones carry the value float() gives
BetInputs ==
    { [numeric |-> TRUE, value |-> v] : v \in {-2000, 0, 100, 5000} }
        \cup { [numeric |-> FALSE, value |-> 0] }

\* the texts typed at the Hit/Stand prompt, lower-cased
Choices == {"h", "s", "x"}

---------------------------------------------------------------------------
(* Card and Deck *)

Suit == <<"HEARTS", "DIAMONDS", "CLUBS", "SPADES">>

ranks == <<"A", "2", "3", "4", "5", "6", "7", "8", "9", "10", "J", "Q", "K">>

\* int(rank) of a numeral rank
Numerals == <<"2", "3", "4", "5", "6", "7", "8", "9", "10">>

int(rank) == CHOOSE n \in 2..10 : Numerals[n - 1] = rank

Card(rank, suit) == [rank |-> rank, suit |-> suit]

get_value(card) ==
    IF card.rank \in {"J", "Q", "K"} THEN 10
    ELSE IF card.rank = "A" THEN 11
    ELSE int(card.rank)

\* [Card(rank, suit) for suit in Suit for rank in ranks]
FreshDeck ==
    [i \in 1..(Len(Suit) * Len(ranks)) |->
        Card(ranks[((i - 1) % Len(ranks)) + 1], Suit[((i - 1) \div Len(ranks)) + 1])]

\* A reference permutation of the 52 positions, in dealing order.
ShuffleOrder ==
    << 1,  9, 13,  8, 26, 14, 27, 12,  5, 39,  6, 40, 34,
      24, 19, 28, 17, 42, 46,  4, 43, 51, 36, 50, 16, 33,
      47, 18, 21, 11, 52, 20, 32, 44, 29, 49, 23, 22, 37,
       7, 25, 38, 41, 15, 35, 30, 45, 10,  2, 31, 48,  3 >>

\* random.shuffle(cards): the k-th permutation is the reference permutation
\* cut 4 * (k - 1) cards deep; the card dealt j-th is the last but j.
shuffle(cards, k) ==
    [i \in 1..Len(cards) |->
        cards[ShuffleOrder[((Len(cards) - i + 4 * (k - 1)) % Len(cards)) + 1]]]

reset_deck(k) == shuffle(FreshDeck, k)

\* deal_card that leaves the card dealt in the deck
deal_card_keeps_card(d, k) ==
    LET cards == IF Len(d) < LowWater THEN reset_deck(k) ELSE d
    IN  [card |-> cards[Len(cards)], cards |-> cards, reset |-> Len(d) < LowWater]

\* deal_card without the reshuffle
deal_card_never_resets(d, k) ==
    [card |-> d[Len(d)], cards |-> SubSeq(d, 1, Len(d) - 1), reset |-> FALSE]

\* deal_card with the reshuffle one card later
deal_card_low9(d, k) ==
    LET cards == IF Len(d) < LowWater - 1 THEN reset_deck(k) ELSE d
    IN  [card |-> cards[Len(cards)], cards |-> SubSeq(cards, 1, Len(cards) - 1),
         reset |-> Len(d) < LowWater - 1]

\* Deck.deal_card on the cards d, a reshuffle giving the k-th permutation:
\* the card dealt, the cards left, and whether the deck was reset
deal_card(d, k) ==
    LET cards == IF Len(d) < LowWater THEN reset_deck(k) ELSE d
    IN  [card |-> cards[Len(cards)], cards |-> SubSeq(cards, 1, Len(cards) - 1),
         reset |-> Len(d) < LowWater]

---------------------------------------------------------------------------
(* Hand *)

add_card(hand, card) == Append(hand, card)

\* the for loop of calculate_score: <<score, aces>> after the first n cards
RECURSIVE SumCards(_, _)
SumCards(hand, n) ==
    IF n = 0 THEN <<0, 0>>
    ELSE LET prev == SumCards(hand, n - 1)
         IN  IF hand[n].rank = "A"
             THEN <<prev[1] + 11, prev[2] + 1>>
             ELSE <<prev[1] + get_value(hand[n]), prev[2]>>

\* the while loop of calculate_score
RECURSIVE AdjustAces(_, _)
AdjustAces(score, aces) ==
    IF score > BustAbove /\ aces > 0 THEN AdjustAces(score - 10, aces - 1)
    ELSE score

\* calculate_score with a single adjustment, whatever the number of Aces
calculate_score_one_adjustment(hand) ==
    LET s == SumCards(hand, Len(hand))
    IN  IF s[1] > BustAbove /\ s[2] > 0 THEN s[1] - 10 ELSE s[1]

calculate_score(hand) ==
    LET s == SumCards(hand, Len(hand))
    IN  AdjustAces(s[1], s[2])

is_blackjack_any_length(hand) == calculate_score(hand) = 21

is_blackjack(hand) == Len(hand) = 2 /\ calculate_score(hand) = 21

is_bust_from_21(hand) == calculate_score(hand) >= BustAbove

is_bust(hand) == calculate_score(hand) > BustAbove

---------------------------------------------------------------------------
(* Player and Dealer *)

\* place_bet that records the bet before it tests the bankroll
place_bet_records_first(m, b, amount) ==
    IF amount <= m
    THEN [ok |-> TRUE, money |-> m - amount, current_bet |-> amount]
    ELSE [ok |-> FALSE, money |-> m, current_bet |-> amount]

\* Player.place_bet on a player with bankroll m and bet b
place_bet(m, b, amount) ==
    IF amount <= m
    THEN [ok |-> TRUE, money |-> m - amount, current_bet |-> amount]
    ELSE [ok |-> FALSE, money |-> m, current_bet |-> b]

\* Player.win_bet; twice the multiplier is passed, 3 for 1.5 and 2 for 1.0
win_bet_profit_only(m, b, multiplier2) ==
    [money |-> m + (b * multiplier2) \div 2, current_bet |-> 0]

win_bet(m, b, multiplier2) ==
    LET winnings == (b * (2 + multiplier2)) \div 2
    IN  [money |-> m + winnings, current_bet |-> 0]

lose_bet_keeps_bet(m, b) == [money |-> m, current_bet |-> b]

lose_bet(m, b) == [money |-> m, current_bet |-> 0]

push_bet(m, b) == [money |-> m + b, current_bet |-> 0]

should_hit_on_17(hand) == calculate_score(hand) <= DealerStandsBelow

should_hit(hand) == calculate_score(hand) < DealerStandsBelow

---------------------------------------------------------------------------
(* play_game of src/main.py, before it is called *)

SimpleInit ==
    /\ simplePc = "start"
    /\ player_hand = <<>>
    /\ computer_hand = <<>>
    /\ game_over = FALSE
    /\ simplePlayerScore = 0
    /\ simpleComputerScore = 0
    /\ user_choice = ""
    /\ message = ""

---------------------------------------------------------------------------
(* BlackjackGame *)

Init ==
    /\ \E k \in 1..NumShuffles : deck = reset_deck(k)
    /\ playerHand = <<>>
    /\ dealerHand = <<>>
    /\ money = StartMoney
    /\ current_bet = 0
    /\ pc = "idle"
    /\ result = "none"
    /\ settlements = 0
    /\ bankrollAtBet = StartMoney
    /\ stake = 0
    /\ lastChoice = "none"
    /\ rejected = FALSE
    /\ reshuffled = FALSE
    /\ SimpleInit

\* end_game that pays a blackjack like a regular win
payout_blackjack_even_money(res, m, b) ==
    IF res = "blackjack" THEN win_bet(m, b, 2)
    ELSE IF res = "win" THEN win_bet(m, b, 2)
    ELSE IF res = "lose" THEN lose_bet(m, b)
    ELSE IF res = "push" THEN push_bet(m, b)
    ELSE [money |-> m, current_bet |-> b]

\* end_game(result, message): the payout of the player
payout(res, m, b) ==
    IF res = "blackjack" THEN win_bet(m, b, 3)
    ELSE IF res = "win" THEN win_bet(m, b, 2)
    ELSE IF res = "lose" THEN lose_bet(m, b)
    ELSE IF res = "push" THEN push_bet(m, b)
    ELSE [money |-> m, current_bet |-> b]

\* end_game after which a bust of the player falls through to the dealer turn
end_game_bust_falls_through(res) ==
    LET p == payout(res, money, current_bet)
    IN  /\ money' = p.money
        /\ current_bet' = p.current_bet
        /\ result' = res
        /\ settlements' = settlements + 1
        /\ pc' = IF pc = "player" THEN "dealer" ELSE "idle"

\* end_game, and the return of start_new_game to the main loop
end_game(res) ==
    LET p == payout(res, money, current_bet)
    IN  /\ money' = p.money
        /\ current_bet' = p.current_bet
        /\ result' = res
        /\ settlements' = settlements + 1
        /\ pc' = "idle"

\* main: the bankroll is positive and the player asks for a hand;
\* start_new_game resets both hands
StartNewGame ==
    /\ pc = "idle"
    /\ money > 0
    /\ money <= MaxMoney
    /\ playerHand' = <<>>
    /\ dealerHand' = <<>>
    /\ result' = "none"
    /\ settlements' = 0
    /\ bankrollAtBet' = money
    /\ stake' = 0
    /\ lastChoice' = "none"
    /\ rejected' = FALSE
    /\ reshuffled' = FALSE
    /\ pc' = "bet"
    /\ UNCHANGED <<deck, money, current_bet>>
    /\ UNCHANGED simpleVars

\* main: the bankroll is used up, or the player declines another hand
Quit ==
    /\ pc = "idle"
    /\ pc' = "over"
    /\ UNCHANGED <<deck, playerHand, dealerHand, money, current_bet, result,
                   settlements, bankrollAtBet, stake, lastChoice, rejected,
                   reshuffled>>
    /\ UNCHANGED simpleVars

\* one pass of the loop of _get_player_bet
GetPlayerBet ==
    /\ pc = "bet"
    /\ \E inp \in BetInputs :
          LET p == IF inp.numeric THEN place_bet(money, current_bet, inp.value)
                   ELSE [ok |-> FALSE, money |-> money, current_bet |-> current_bet]
          IN  /\ money' = p.money
              /\ current_bet' = p.current_bet
              /\ pc' = IF p.ok THEN "deal" ELSE "bet"
              /\ bankrollAtBet' = money
              /\ stake' = IF p.ok THEN inp.value ELSE stake
              /\ rejected' = ~p.ok
    /\ UNCHANGED <<deck, playerHand, dealerHand, result, settlements, lastChoice,
                   reshuffled>>
    /\ UNCHANGED simpleVars

\* _deal_initial_cards, one deal_card call at a time: the player is dealt
\* first in each of the two passes
DealInitialCards ==
    /\ pc = "deal"
    /\ \E k \in 1..NumShuffles :
          LET d == deal_card(deck, k)
          IN  /\ deck' = d.cards
              /\ reshuffled' = (reshuffled \/ d.reset)
              /\ IF Len(playerHand) = Len(dealerHand)
                 THEN /\ playerHand' = add_card(playerHand, d.card)
                      /\ dealerHand' = dealerHand
                 ELSE /\ dealerHand' = add_card(dealerHand, d.card)
                      /\ playerHand' = playerHand
    /\ pc' = IF Len(dealerHand') = 2 THEN "natural" ELSE "deal"
    /\ UNCHANGED <<money, current_bet, result, settlements, bankrollAtBet, stake,
                   lastChoice, rejected>>
    /\ UNCHANGED simpleVars

\* the result _check_natural_blackjacks settles the round with, "none" when
\* the round continues
natural_result_player_first(p, d) ==
    IF is_blackjack(p) THEN "blackjack"
    ELSE IF is_blackjack(d) THEN "lose"
    ELSE "none"

natural_result(p, d) ==
    IF is_blackjack(p) /\ is_blackjack(d) THEN "push"
    ELSE IF is_blackjack(p) THEN "blackjack"
    ELSE IF is_blackjack(d) THEN "lose"
    ELSE "none"

CheckNaturalBlackjacks ==
    /\ pc = "natural"
    /\ LET res == natural_result(playerHand, dealerHand)
       IN  IF res # "none"
           THEN end_game(res)
           ELSE /\ pc' = "player"
                /\ UNCHANGED <<money, current_bet, result, settlements>>
    /\ UNCHANGED <<deck, playerHand, dealerHand, bankrollAtBet, stake, lastChoice,
                   rejected, reshuffled>>
    /\ UNCHANGED simpleVars

\* the branch of _player_turn taken on a choice
player_action_else_stand(choice) ==
    IF choice = "h" THEN "hit" ELSE "stand"

player_action(choice) ==
    IF choice = "h" THEN "hit"
    ELSE IF choice = "s" THEN "stand"
    ELSE "retry"

\* one pass of the loop of _player_turn
PlayerTurn ==
    /\ pc = "player"
    /\ IF is_bust(playerHand)
       THEN /\ pc' = "dealer"
            /\ UNCHANGED <<deck, playerHand, money, current_bet, result, settlements,
                           lastChoice, reshuffled>>
       ELSE \E choice \in Choices :
            /\ lastChoice' = choice
            /\ IF player_action(choice) = "hit"
              THEN \E k \in 1..NumShuffles :
                      LET d == deal_card(deck, k)
                      IN  /\ deck' = d.cards
                          /\ reshuffled' = (reshuffled \/ d.reset)
                          /\ playerHand' = add_card(playerHand, d.card)
                          /\ IF is_bust(playerHand')
                             THEN end_game("lose")
                             ELSE /\ pc' = "player"
                                  /\ UNCHANGED <<money, current_bet, result,
                                                 settlements>>
              ELSE IF player_action(choice) = "stand"
              THEN /\ pc' = "dealer"
                   /\ UNCHANGED <<deck, playerHand, money, current_bet, result,
                                  settlements, reshuffled>>
              ELSE UNCHANGED <<pc, deck, playerHand, money, current_bet, result,
                               settlements, reshuffled>>
    /\ UNCHANGED <<dealerHand, bankrollAtBet, stake, rejected>>
    /\ UNCHANGED simpleVars

\* _dealer_turn with a loop that draws below 17 and is never left
DealerTurn_never_left ==
    /\ pc = "dealer"
    /\ IF should_hit(dealerHand)
       THEN /\ \E k \in 1..NumShuffles :
                  LET d == deal_card(deck, k)
                  IN  /\ deck' = d.cards
                      /\ reshuffled' = (reshuffled \/ d.reset)
                      /\ dealerHand' = add_card(dealerHand, d.card)
            /\ pc' = "dealer"
       ELSE UNCHANGED <<pc, deck, dealerHand, reshuffled>>
    /\ UNCHANGED <<playerHand, money, current_bet, result, settlements,
                   bankrollAtBet, stake, lastChoice, rejected>>
    /\ UNCHANGED simpleVars

\* one pass of the loop of _dealer_turn, or its end
DealerTurn ==
    /\ pc = "dealer"
    /\ IF should_hit(dealerHand)
       THEN /\ \E k \in 1..NumShuffles :
                  LET d == deal_card(deck, k)
                  IN  /\ deck' = d.cards
                      /\ reshuffled' = (reshuffled \/ d.reset)
                      /\ dealerHand' = add_card(dealerHand, d.card)
            /\ pc' = "dealer"
       ELSE /\ pc' = "decide"
            /\ UNCHANGED <<deck, dealerHand, reshuffled>>
    /\ UNCHANGED <<playerHand, money, current_bet, result, settlements,
                   bankrollAtBet, stake, lastChoice, rejected>>
    /\ UNCHANGED simpleVars

\* the result _determine_winner settles the round with
winner_result_no_bust_check(p, d) ==
    LET player_score == calculate_score(p)
        dealer_score == calculate_score(d)
    IN  IF player_score > dealer_score THEN "win"
        ELSE IF player_score < dealer_score THEN "lose"
        ELSE "push"

winner_result(p, d) ==
    LET player_score == calculate_score(p)
        dealer_score == calculate_score(d)
    IN  IF is_bust(d) THEN "win"
        ELSE IF player_score > dealer_score THEN "win"
        ELSE IF player_score < dealer_score THEN "lose"
        ELSE "push"

DetermineWinner ==
    /\ pc = "decide"
    /\ end_game(winner_result(playerHand, dealerHand))
    /\ UNCHANGED <<deck, playerHand, dealerHand, bankrollAtBet, stake, lastChoice,
                   rejected, reshuffled>>
    /\ UNCHANGED simpleVars

Next ==
    \/ StartNewGame
    \/ Quit
    \/ GetPlayerBet
    \/ DealInitialCards
    \/ CheckNaturalBlackjacks
    \/ PlayerTurn
    \/ DealerTurn
    \/ DetermineWinner

Spec == Init /\ [][Next]_vars

\* The program is one thread that runs each step of a round in turn, and the
\* player in the end types a valid choice at the Hit/Stand prompt (an invalid
\* one leaves the state as it is, but for the record of the choice).
RoundStep ==
    \/ DealInitialCards
    \/ CheckNaturalBlackjacks
    \/ PlayerTurn
    \/ DealerTurn
    \/ DetermineWinner

RoundFairness == WF_vars(RoundStep)

\* StartNewGame of a player who leaves the table below MinMoneyLive
StartNewGameLive == StartNewGame /\ money >= MinMoneyLive

NextLive ==
    \/ StartNewGameLive
    \/ Quit
    \/ GetPlayerBet
    \/ DealInitialCards
    \/ CheckNaturalBlackjacks
    \/ PlayerTurn
    \/ DealerTurn
    \/ DetermineWinner

SpecLive == Init /\ [][NextLive]_vars /\ RoundFairness

---------------------------------------------------------------------------
(* Hands of any cards: a Hand built on its own, one add_card at a time *)

\* Hand.add_card of a card of any rank; the suits follow in turn, so that a
\* hand can hold the four Aces
HandAddCard ==
    /\ Len(playerHand) < MaxHandLen
    /\ \E r \in 1..Len(ranks) :
          playerHand' = add_card(playerHand,
                                 Card(ranks[r], Suit[(Len(playerHand) % Len(Suit)) + 1]))
    /\ UNCHANGED <<deck, dealerHand, money, current_bet, pc, result, settlements,
                   bankrollAtBet, stake, lastChoice, rejected, reshuffled>>
    /\ UNCHANGED simpleVars

HandInit == Init /\ deck = reset_deck(1)

HandNext == HandAddCard

SpecHand == HandInit /\ [][HandNext]_vars

---------------------------------------------------------------------------
(* The simple engine: play_game of src/main.py *)

CARDS ==
    << [name |-> "A", value |-> 11], [name |-> "2", value |-> 2],
       [name |-> "3", value |-> 3],  [name |-> "4", value |-> 4],
       [name |-> "5", value |-> 5],  [name |-> "6", value |-> 6],
       [name |-> "7", value |-> 7],  [name |-> "8", value |-> 8],
       [name |-> "9", value |-> 9],  [name |-> "10", value |-> 10],
       [name |-> "J", value |-> 10], [name |-> "Q", value |-> 10],
       [name |-> "K", value |-> 10] >>

\* deal_card(): random.choice(CARDS), drawn in the model among the Ace, the 5,
\* the 9 and the King
DrawnCards == {CARDS[i] : i \in {1, 5, 9, 13}}

\* the texts typed at the Hit/Stand prompt of play_game, lower-cased and stripped
SimpleChoices == {"h", "hit", "y", "s", "stand", "n", "x"}

RECURSIVE SumValues(_)
SumValues(hand) ==
    IF hand = <<>> THEN 0 ELSE Head(hand).value + SumValues(Tail(hand))

\* calculate_score of main.py taking 10 off for every Ace of a hand over 21
main_calculate_score_all_aces_down(hand) ==
    LET score == SumValues(hand)
        aces == Cardinality({i \in 1..Len(hand) : hand[i].name = "A"})
    IN  IF score > 21 THEN score - 10 * aces ELSE score

\* calculate_score of main.py
main_calculate_score(hand) ==
    LET score == SumValues(hand)
    IN  IF score > 21 /\ \E i \in 1..Len(hand) : hand[i].name = "A"
        THEN score - 10
        ELSE score

\* compare of main.py
compare(p, c) ==
    IF p > 21 THEN "You went over. You lose!"
    ELSE IF c > 21 THEN "Computer went over. You win!"
    ELSE IF p = c THEN "It's a draw!"
    ELSE IF p = 21 THEN "Blackjack! You win!"
    ELSE IF c = 21 THEN "Computer has Blackjack! You lose!"
    ELSE IF p > c THEN "You win!"
    ELSE "You lose!"

\* play_game: the two hands are dealt
PlayGameDeal ==
    /\ simplePc = "start"
    /\ \E c1 \in DrawnCards, c2 \in DrawnCards, c3 \in DrawnCards, c4 \in DrawnCards :
          /\ player_hand' = <<c1, c2>>
          /\ computer_hand' = <<c3, c4>>
    /\ game_over' = FALSE
    /\ simplePc' = "loop"
    /\ UNCHANGED <<simplePlayerScore, simpleComputerScore, user_choice, message>>
    /\ UNCHANGED gameVars

\* play_game: the test of `while not game_over` and the head of its body
PlayGameLoop ==
    /\ simplePc = "loop"
    /\ IF game_over
       THEN /\ simplePc' = "dealer"
            /\ UNCHANGED <<game_over, simplePlayerScore, simpleComputerScore>>
       ELSE /\ simplePlayerScore' = main_calculate_score(player_hand)
            /\ simpleComputerScore' = main_calculate_score(computer_hand)
            /\ IF \/ simplePlayerScore' = 21
                  \/ simpleComputerScore' = 21
                  \/ simplePlayerScore' > 21
               THEN /\ game_over' = TRUE
                    /\ simplePc' = "loop"
               ELSE /\ game_over' = FALSE
                    /\ simplePc' = "prompt"
    /\ UNCHANGED <<player_hand, computer_hand, user_choice, message>>
    /\ UNCHANGED gameVars

\* play_game: one pass of the loop of the Hit/Stand prompt
PlayGamePrompt ==
    /\ simplePc = "prompt"
    /\ \E choice \in SimpleChoices :
          /\ user_choice' = choice
          /\ IF choice \in {"h", "hit", "y"}
             THEN /\ \E c \in DrawnCards : player_hand' = Append(player_hand, c)
                  /\ simplePc' = "loop"
                  /\ UNCHANGED game_over
             ELSE IF choice \in {"s", "stand", "n"}
             THEN /\ game_over' = TRUE
                  /\ simplePc' = "loop"
                  /\ UNCHANGED player_hand
             ELSE UNCHANGED <<simplePc, player_hand, game_over>>
    /\ UNCHANGED <<computer_hand, simplePlayerScore, simpleComputerScore, message>>
    /\ UNCHANGED gameVars

\* play_game: one pass of `while computer_score < 17 and not game_over`, or
\* the final compare
PlayGameDealer ==
    /\ simplePc = "dealer"
    /\ IF simpleComputerScore < 17 /\ ~game_over
       THEN /\ \E c \in DrawnCards : computer_hand' = Append(computer_hand, c)
            /\ simpleComputerScore' = main_calculate_score(computer_hand')
            /\ UNCHANGED <<simplePc, message>>
       ELSE /\ message' = compare(simplePlayerScore, simpleComputerScore)
            /\ simplePc' = "done"
            /\ UNCHANGED <<computer_hand, simpleComputerScore>>
    /\ UNCHANGED <<player_hand, game_over, simplePlayerScore, user_choice>>
    /\ UNCHANGED gameVars

NextSimple ==
    \/ PlayGameDeal
    \/ PlayGameLoop
    \/ PlayGamePrompt
    \/ PlayGameDealer

SpecSimple == HandInit /\ [][NextSimple]_vars

---------------------------------------------------------------------------
(* Definitions used to state the properties *)

RanksOf(hand) == [i \in 1..Len(hand) |-> hand[i].rank]

\* the base value of a rank: A = 11, J/Q/K = 10, numerals at face value
BaseValue(rank) ==
    CASE rank = "A" -> 11
      [] rank \in {"J", "Q", "K"} -> 10
      [] rank = "2" -> 2 [] rank = "3" -> 3 [] rank = "4" -> 4
      [] rank = "5" -> 5 [] rank = "6" -> 6 [] rank = "7" -> 7
      [] rank = "8" -> 8 [] rank = "9" -> 9 [] rank = "10" -> 10

RECURSIVE BaseSum(_)
BaseSum(hand) ==
    IF hand = <<>> THEN 0 ELSE BaseValue(Head(hand).rank) + BaseSum(Tail(hand))

AcesIn(hand) == Cardinality({i \in 1..Len(hand) : hand[i].rank = "A"})

\* the number of Aces downgraded: one at a time, only while the total
\* exceeds 21, each Ace at most once
Downgrades(hand) ==
    CHOOSE k \in 0..AcesIn(hand) :
        /\ \A j \in 0..(k - 1) : BaseSum(hand) - 10 * j > 21
        /\ (BaseSum(hand) - 10 * k <= 21 \/ k = AcesIn(hand))

InRound == pc \in {"deal", "natural", "player", "dealer", "decide"}

BetweenRounds == pc \in {"idle", "over"}

---------------------------------------------------------------------------
(* Properties *)

\* C1: calculate_score is the sum of the base values minus 10 for each Ace
\* downgraded, Aces being downgraded one at a time only while the total
\* exceeds 21; [A,A] = 12, [A,A,9] = 21, [A,9] = 20, [A,A,A,8] = 21, and a
\* hand without Aces scores the sum of its base values.
C1_ScoreDowngradesAces ==
    /\ calculate_score(playerHand) = BaseSum(playerHand) - 10 * Downgrades(playerHand)
    /\ (AcesIn(playerHand) = 0 => calculate_score(playerHand) = BaseSum(playerHand))
    /\ (RanksOf(playerHand) = <<"A", "A">> => calculate_score(playerHand) = 12)
    /\ (RanksOf(playerHand) = <<"A", "A", "9">> => calculate_score(playerHand) = 21)
    /\ (RanksOf(playerHand) = <<"A", "9">> => calculate_score(playerHand) = 20)
    /\ (RanksOf(playerHand) = <<"A", "A", "A", "8">> => calculate_score(playerHand) = 21)

C1_Witness ==
    /\ RanksOf(playerHand) = <<"A", "A", "A", "8">>
    /\ calculate_score(playerHand) = 21
    /\ Downgrades(playerHand) = 2

\* C2: a round whose bet b was accepted from a bankroll m leaves the bankroll
\* m + 1.5 b on a blackjack, m + b on a win, m on a push and m - b on a loss;
\* until it is settled the bet is held out of the bankroll.
C2_SettlementPaysByOutcome ==
    /\ InRound => (money = bankrollAtBet - stake /\ current_bet = stake)
    /\ (BetweenRounds /\ result = "blackjack") => 2 * money = 2 * bankrollAtBet + 3 * stake
    /\ (BetweenRounds /\ result = "win") => money = bankrollAtBet + stake
    /\ (BetweenRounds /\ result = "push") => money = bankrollAtBet
    /\ (BetweenRounds /\ result = "lose") => money = bankrollAtBet - stake

C2_Witness ==
    /\ pc = "idle"
    /\ result = "blackjack"
    /\ stake = 100
    /\ money = bankrollAtBet + 150

\* C3: place_bet accepts an amount if and only if it is positive and does not
\* exceed the bankroll.
C3_BetAcceptedIffPositiveAndCovered ==
    pc = "bet" =>
        \A inp \in BetInputs :
            inp.numeric =>
                (place_bet(money, current_bet, inp.value).ok
                    <=> (0 < inp.value /\ inp.value <= money))

\* C4: the bankroll and the current bet are never negative.
C4_BankrollAndBetNonNegative == money >= 0 /\ current_bet >= 0

\* C5: after the initial deal, two naturals are a push, a natural of the
\* player alone is a blackjack win paying 1.5 times the bet, a natural of the
\* dealer alone is a loss, and in these cases the round is settled at once:
\* no prompt, no further card.
C5_NaturalsSettleAtOnce ==
    [][pc = "natural" =>
        LET pbj == Len(playerHand) = 2 /\ calculate_score(playerHand) = 21
            dbj == Len(dealerHand) = 2 /\ calculate_score(dealerHand) = 21
        IN  /\ (pbj /\ dbj) => (result' = "push" /\ money' = money + current_bet)
            /\ (pbj /\ ~dbj) =>
                  (result' = "blackjack" /\ 2 * money' = 2 * money + 5 * current_bet)
            /\ (~pbj /\ dbj) => (result' = "lose" /\ money' = money)
            /\ (pbj \/ dbj) =>
                  /\ pc' = "idle"
                  /\ settlements' = 1
                  /\ lastChoice' = "none"
                  /\ playerHand' = playerHand
                  /\ dealerHand' = dealerHand
                  /\ deck' = deck
            /\ (~pbj /\ ~dbj) => (pc' = "player" /\ result' = "none")]_vars

C5_Witness ==
    /\ pc = "idle"
    /\ result = "push"
    /\ is_blackjack(playerHand)
    /\ is_blackjack(dealerHand)
    /\ stake = 100

\* C6: a Hit draws exactly one card into the player's hand; if the hand is
\* then bust the round is settled at once as a loss, the dealer still holding
\* its two initial cards.
C6_HitDrawsOneAndBustLoses ==
    [][(pc = "player" /\ lastChoice' = "h") =>
        /\ calculate_score(playerHand) <= 21
        /\ Len(playerHand') = Len(playerHand) + 1
        /\ SubSeq(playerHand', 1, Len(playerHand)) = playerHand
        /\ playerHand'[Len(playerHand')] = deal_card(deck, 1).card
              \/ Len(deck) < LowWater
        /\ Len(deck') = Len(deck) - 1 \/ Len(deck) < LowWater
        /\ dealerHand' = dealerHand
        /\ calculate_score(playerHand') > 21 =>
              /\ result' = "lose"
              /\ pc' = "idle"
              /\ settlements' = 1
              /\ money' = money
              /\ Len(dealerHand') = 2
        /\ calculate_score(playerHand') <= 21 =>
              (pc' = "player" /\ result' = "none")]_vars

C6_Witness ==
    /\ pc = "idle"
    /\ result = "lose"
    /\ lastChoice = "h"
    /\ calculate_score(playerHand) > 21
    /\ Len(playerHand) = 3
    /\ Len(dealerHand) = 2

\* C7: in the dealer turn the dealer draws one card exactly while its score
\* is below 17 and stops once it is 17 or more: the turn ends with a score of
\* at least 17, and a hand of 17 or more is left unchanged (should_hit is
\* false).
C7_DealerDrawsBelow17 ==
    [][pc = "dealer" =>
        /\ calculate_score(dealerHand) < 17 =>
              /\ Len(dealerHand') = Len(dealerHand) + 1
              /\ SubSeq(dealerHand', 1, Len(dealerHand)) = dealerHand
              /\ pc' = "dealer"
        /\ calculate_score(dealerHand) >= 17 =>
              /\ ~should_hit(dealerHand)
              /\ dealerHand' = dealerHand
              /\ deck' = deck
              /\ pc' = "decide"
        /\ pc' = "decide" => calculate_score(dealerHand') >= 17
        /\ playerHand' = playerHand
        /\ result' = "none"]_vars

C7_Witness ==
    /\ pc = "decide"
    /\ Len(dealerHand) = 4
    /\ calculate_score(dealerHand) >= 17

\* C8: after the dealer turn the outcome is a win if the dealer is over 21,
\* otherwise a win if the player's score is greater, a loss if it is smaller
\* and a push if the scores are equal; never a blackjack win.
C8_FinalComparison ==
    [][pc = "decide" =>
        LET p == calculate_score(playerHand)
            d == calculate_score(dealerHand)
        IN  /\ d > 21 => result' = "win"
            /\ (d <= 21 /\ p > d) => result' = "win"
            /\ (d <= 21 /\ p < d) => result' = "lose"
            /\ (d <= 21 /\ p = d) => result' = "push"
            /\ result' # "blackjack"
            /\ pc' = "idle"]_vars

C8_Witness ==
    /\ pc = "idle"
    /\ result = "win"
    /\ lastChoice = "s"
    /\ calculate_score(dealerHand) > 21
    /\ calculate_score(playerHand) < 17

\* C9: whenever a round has completed, by natural check, player bust or final
\* comparison, the current bet is 0: no bet is active between rounds.
C9_NoBetBetweenRounds == BetweenRounds => current_bet = 0

C9_Witness ==
    /\ pc = "idle"
    /\ result = "lose"
    /\ stake = 100
    /\ current_bet = 0

\* C10, as claimed: after each deal_card call the deck holds at least 10
\* cards.
C10_DeckAtLeastTen == Len(deck) >= 10

\* C10, amended: after each deal_card call the deck holds at least 9 cards (a
\* draw from a deck of exactly 10 cards does not reshuffle and leaves 9).
C10_DeckAtLeastNine == Len(deck) >= 9

C10_Witness == Len(deck) = 9 /\ Len(playerHand) + Len(dealerHand) > 0

\* C11: the deck is never exhausted: whenever deal_card is called, a deck of
\* fewer than 10 cards is replaced by a full deck of 52 before the card is
\* removed, so the card is removed from a non-empty deck and is a card.
C11_DeckNeverExhausted ==
    \A k \in 1..NumShuffles :
        LET d == deal_card(deck, k)
        IN  /\ Len(deck) < 10 => d.reset
            /\ d.reset => Len(d.cards) = 52 - 1
            /\ ~d.reset => (Len(deck) >= 1 /\ Len(d.cards) = Len(deck) - 1)
            /\ \E i \in 1..52 : d.card = FreshDeck[i]

C11_Witness == reshuffled /\ Len(deck) = 51 /\ Len(playerHand) >= 2

\* C12: once a bet has been accepted the round runs to settlement: the
\* player turn and the dealer turn end and end_game is reached, the bet no
\* longer active.
C12_RoundRunsToSettlement ==
    InRound ~> (pc = "idle" /\ settlements = 1 /\ result # "none" /\ current_bet = 0)

C12_Witness ==
    /\ pc = "idle"
    /\ settlements = 1
    /\ lastChoice = "s"
    /\ Len(playerHand) > 2
    /\ Len(dealerHand) > 2
    /\ stake = 100

\* C13: in every round end_game is called exactly once, after the last card
\* of the round has been drawn, on every path: a round in progress is not
\* settled, a completed round is settled once, and from the settlement on no
\* card is drawn before the hands are reset.
C13_SettledExactlyOnce ==
    /\ [](/\ settlements <= 1
          /\ (InRound \/ pc = "bet") => (settlements = 0 /\ result = "none")
          /\ (BetweenRounds /\ result # "none") => settlements = 1
          /\ (BetweenRounds /\ result = "none") => (settlements = 0 /\ playerHand = <<>>))
    /\ [][settlements = 1 =>
            /\ deck' = deck
            /\ playerHand' = playerHand \/ (playerHand' = <<>> /\ settlements' = 0)
            /\ dealerHand' = dealerHand \/ (dealerHand' = <<>> /\ settlements' = 0)]_vars

C13_Witness ==
    /\ pc = "idle"
    /\ settlements = 1
    /\ result = "push"
    /\ Len(dealerHand) > 2
    /\ reshuffled

\* C14: a rejected bet changes no state: the bankroll, the current bet, both
\* hands and the deck are as before the attempt, and betting is retried.
C14_RejectedBetChangesNothing ==
    [][(pc = "bet" /\ rejected') =>
        /\ money' = money
        /\ current_bet' = current_bet
        /\ playerHand' = playerHand
        /\ dealerHand' = dealerHand
        /\ deck' = deck
        /\ pc' = "bet"]_vars

C14_Witness ==
    /\ pc = "bet"
    /\ rejected
    /\ money = 50
    /\ current_bet = 0

\* C15: a token other than Hit or Stand typed in the player turn draws no
\* card and consumes no turn: both hands, the deck, the bankroll and the bet
\* are unchanged and the player is prompted again.
C15_InvalidChoiceChangesNothing ==
    [][(pc = "player" /\ calculate_score(playerHand) <= 21
            /\ lastChoice' \notin {"h", "s"}) =>
        /\ playerHand' = playerHand
        /\ dealerHand' = dealerHand
        /\ deck' = deck
        /\ money' = money
        /\ current_bet' = current_bet
        /\ result' = "none"
        /\ pc' = "player"]_vars

C15_Witness ==
    /\ pc = "player"
    /\ lastChoice = "x"
    /\ Len(playerHand) = 3
    /\ current_bet = 100

\* C16: is_blackjack is true exactly of the hands of 2 cards that score 21
\* (an Ace with a card worth 10): false of every hand of 3 or more cards that
\* scores 21 and of every 2-card hand that does not score 21.
C16_BlackjackIsTwoCard21 ==
    LET score == BaseSum(playerHand) - 10 * Downgrades(playerHand)
        tens == {"10", "J", "Q", "K"}
    IN  /\ is_blackjack(playerHand) <=> (Len(playerHand) = 2 /\ score = 21)
        /\ (Len(playerHand) >= 3 /\ score = 21) => ~is_blackjack(playerHand)
        /\ (Len(playerHand) = 2 /\ score # 21) => ~is_blackjack(playerHand)
        /\ is_blackjack(playerHand) <=>
              \E t \in tens : RanksOf(playerHand) \in {<<"A", t>>, <<t, "A">>}

C16_Witness ==
    /\ RanksOf(playerHand) = <<"7", "7", "7">>
    /\ calculate_score(playerHand) = 21
    /\ ~is_blackjack(playerHand)

\* a round with a bet of 100 in which the player was dealt {A,K} and the
\* dealer {9,8} has completed
AceKingAgainstNineEight ==
    /\ BetweenRounds
    /\ settlements = 1
    /\ stake = 100
    /\ Len(playerHand) = 2
    /\ {playerHand[1].rank, playerHand[2].rank} = {"A", "K"}
    /\ Len(dealerHand) = 2
    /\ {dealerHand[1].rank, dealerHand[2].rank} = {"9", "8"}

\* C17, as claimed: with a bet of 100, the round of {A,K} against {9,8} ends
\* as a blackjack win and leaves the bankroll 250 above the bankroll before
\* the bet was placed.
C17_BlackjackLeavesBankrollUp250 ==
    AceKingAgainstNineEight => (result = "blackjack" /\ money = bankrollAtBet + 250)

\* C17, amended: it leaves the bankroll 150 above the bankroll before the bet
\* was placed, which is 250 above the bankroll left by the bet.
C17_BlackjackLeavesBankrollUp150 ==
    AceKingAgainstNineEight =>
        /\ result = "blackjack"
        /\ money = bankrollAtBet + 150
        /\ money = (bankrollAtBet - 100) + 250

C17_Witness == AceKingAgainstNineEight /\ bankrollAtBet = 1000 /\ money = 1150

NamesOf(hand) == [i \in 1..Len(hand) |-> hand[i].name]

\* C18: in play_game, when the player stands with neither side at 21, the
\* computer draws while its score is below 17, so that the computer's final
\* score given to compare is at least 17.
C18_ComputerDrawsTo17 ==
    (simplePc = "done" /\ user_choice \in {"s", "stand", "n"}) =>
        /\ simpleComputerScore >= 17
        /\ main_calculate_score(computer_hand) >= 17

\* C20, as claimed: in the simple engine the hand A,A,9 scores 31 instead of
\* 21.
C20_AceAceNineScores31 ==
    NamesOf(player_hand) = <<"A", "A", "9">> => main_calculate_score(player_hand) = 31

\* C20, amended: in the simple engine the hand A,A,9 scores 21 (31 less the
\* single adjustment of 10); the single adjustment falls short on A,A,K,
\* which scores 22.
C20_AceAceNineScores21 ==
    /\ NamesOf(player_hand) = <<"A", "A", "9">> =>
          (SumValues(player_hand) = 31 /\ main_calculate_score(player_hand) = 21)
    /\ NamesOf(player_hand) = <<"A", "A", "K">> => main_calculate_score(player_hand) = 22
    /\ (simplePc = "dealer" /\ NamesOf(player_hand) = <<"A", "A", "9">>) =>
          simplePlayerScore = 21

C20_Witness ==
    /\ NamesOf(player_hand) = <<"A", "A", "9">>
    /\ simplePc = "done"
    /\ simplePlayerScore = 21

CardsIn(cards) == {cards[i] : i \in 1..Len(cards)}

\* C19, as claimed: at every point of play no (rank, suit) card is at the same
\* time in the deck and in the hand of the player or of the dealer.
C19_NoCardInDeckAndHand ==
    CardsIn(deck) \cap (CardsIn(playerHand) \cup CardsIn(dealerHand)) = {}

\* C19, amended: no card is at the same time in the deck and in a hand as
\* long as the deck has not been reshuffled since the hands were last reset;
\* nor is a card twice in the deck.
C19_NoCardInDeckAndHandUntilReshuffle ==
    /\ ~reshuffled =>
          CardsIn(deck) \cap (CardsIn(playerHand) \cup CardsIn(dealerHand)) = {}
    /\ Cardinality(CardsIn(deck)) = Len(deck)

C19_Witness ==
    /\ ~reshuffled
    /\ Len(playerHand) >= 3
    /\ Len(dealerHand) >= 3
    /\ Len(deck) < 52
    /\ CardsIn(deck) \cap (CardsIn(playerHand) \cup CardsIn(dealerHand)) = {}

====
